---- MODULE Spec2Model ----
(***************************************************************************)
(* A model of the Wordle solver: the feedback codec, the candidate filter, *)
(* the entropy/hybrid scoring, the serial and parallel suggestion paths of *)
(* suggest_guesses, the WordleSolver session object and the HTTP handlers  *)
(* of main.py that drive it.                                               *)
(*                                                                         *)
(* Words are sequences of one-character strings.  Real numbers are kept in *)
(* fixed point: entropy in thousandths of a bit, zipf frequency in         *)
(* hundredths, alpha in tenths, a hybrid score in units of 1/60000.        *)
(***************************************************************************)
EXTENDS Integers, Sequences, FiniteSets, TLC

VARIABLES
    sessions,   \* main.py `sessions`: session id -> WordleSolver fields
    created,    \* ghost: session id -> candidates right after __init__
    before,     \* ghost: the addressed solver's fields when the last request arrived
    response,   \* the last HTTP response, with the request that caused it
    cguess,     \* codec run: the guess fed to feedback_pattern
    ctarget,    \* codec run: the target fed to feedback_pattern
    cout,       \* codec run: the value feedback_pattern returned
    dargs,      \* dispatcher run: the inputs of suggest_guesses
    dphase,     \* dispatcher run: position in the parallel path
    dresults,   \* dispatcher run: task index -> worker result, once completed
    dorder,     \* dispatcher run: task indices in order of completion
    dout,       \* dispatcher run: the list the parallel path returned
    fin,        \* function run: the arguments of the function under study
    fout,       \* function run: name of a call -> the value it returned
    rpc,        \* racing guesses: thread -> its position in WordleSolver.guess
    rreq,       \* racing guesses: thread -> the request it handles
    rlocal      \* racing guesses: thread -> the candidates list it has read

vars == <<sessions, created, before, response, cguess, ctarget, cout,
          dargs, dphase, dresults, dorder, dout, fin, fout, rpc, rreq, rlocal>>

solverVars == <<sessions, created, before, response>>
codecVars == <<cguess, ctarget, cout>>
dispatchVars == <<dargs, dphase, dresults, dorder, dout>>
functionVars == <<fin, fout>>
raceVars == <<rpc, rreq, rlocal>>

-----------------------------------------------------------------------------
(* Words and letters *)

\* Length of a word and of a pattern: `[0] * 5`.
WordLen == 5

\* Python's None, written into consumed slots of target_chars.
None == "None"

\* The lowercase letters the model uses, in code-point order.
Letters == <<"a", "c", "e", "i", "l", "n", "p", "r", "s", "t">>

Ord(ch) == CHOOSE i \in 1..Len(Letters) : Letters[i] = ch

crane == <<"c", "r", "a", "n", "e">>
plate == <<"p", "l", "a", "t", "e">>
slate == <<"s", "l", "a", "t", "e">>
stale == <<"s", "t", "a", "l", "e">>
trace == <<"t", "r", "a", "c", "e">>
eerie == <<"e", "e", "r", "i", "e">>
least == <<"l", "e", "a", "s", "t">>

\* build_dictionary(n_top, filter_past_answers=False): sorted(set(words)).
Dictionary == <<crane, plate, slate, stale, trace>>

Range(s) == {s[i] : i \in 1..Len(s)}

-----------------------------------------------------------------------------
(* Pattern codec: feedback_pattern *)

\* target_chars.index(ch): the first slot holding ch.
IndexOf(chars, ch) == CHOOSE i \in 1..Len(chars) :
    /\ chars[i] = ch
    /\ \A j \in 1..(i - 1) : chars[j] # ch

\* The "Greens first" loop: the pattern and target_chars it leaves.
Greens(guess, target) ==
    [pattern |-> [i \in 1..WordLen |-> IF target[i] = guess[i] THEN 2 ELSE 0],
     target_chars |-> [i \in 1..WordLen |->
                          IF target[i] = guess[i] THEN None ELSE target[i]]]

\* The "Yellows" loop from position i on.
RECURSIVE Yellows(_, _, _, _)
Yellows(guess, pattern, target_chars, i) ==
    IF i > WordLen THEN pattern
    ELSE IF pattern[i] = 0 /\ guess[i] \in Range(target_chars)
         THEN Yellows(guess,
                      [pattern EXCEPT ![i] = 1],
                      [target_chars EXCEPT ![IndexOf(target_chars, guess[i])] = None],
                      i + 1)
         ELSE Yellows(guess, pattern, target_chars, i + 1)

\* A plausible slip: the yellows pass looks the letter up in the whole target,
\* ignoring what the greens pass consumed.
feedback_pattern_noconsume(guess, target) ==
    Yellows(guess, Greens(guess, target).pattern, target, 1)

\* A plausible slip: the greens pass stops one position short.
feedback_pattern_short(guess, target) ==
    LET g == Greens(guess, target)
        p == [g.pattern EXCEPT ![WordLen] = 0]
        t == [g.target_chars EXCEPT ![WordLen] = target[WordLen]]
    IN  Yellows(guess, p, t, 1)

feedback_pattern(guess, target) ==
    LET g == Greens(guess, target)
    IN  Yellows(guess, g.pattern, g.target_chars, 1)

-----------------------------------------------------------------------------
(* Candidate filter *)

\* A plausible slip: the comparison inverted.
filter_candidates_inverted(candidates, guess, pattern) ==
    SelectSeq(candidates, LAMBDA w : feedback_pattern(guess, w) # pattern)

\* A plausible slip: the scan starts at the second candidate.
filter_candidates_skip_first(candidates, guess, pattern) ==
    IF candidates = << >> THEN << >>
    ELSE SelectSeq(Tail(candidates), LAMBDA w : feedback_pattern(guess, w) = pattern)

filter_candidates(candidates, guess, pattern) ==
    SelectSeq(candidates, LAMBDA w : feedback_pattern(guess, w) = pattern)

\* A plausible slip: only the first record of the history is examined.
is_consistent_first_only(word, history) ==
    \/ history = << >>
    \/ feedback_pattern(history[1][1], word) = history[1][2]

\* The loop of is_consistent from record k on: False at the first record the
\* word contradicts, True when the records are used up.
RECURSIVE is_consistent_from(_, _, _)
is_consistent_from(word, history, k) ==
    IF k > Len(history) THEN TRUE
    ELSE IF feedback_pattern(history[k][1], word) # history[k][2] THEN FALSE
    ELSE is_consistent_from(word, history, k + 1)

is_consistent(word, history) == is_consistent_from(word, history, 1)

-----------------------------------------------------------------------------
(* Entropy and scoring *)

\* math.log2(n) in thousandths of a bit, for n = 1..8.
Log2Milli == <<0, 1000, 1585, 2000, 2322, 2585, 2807, 3000>>

\* The defaultdict `partitions`: realized pattern -> number of candidates.
Partitions(guess, candidates) ==
    [p \in {feedback_pattern(guess, candidates[i]) : i \in 1..Len(candidates)} |->
        Cardinality({i \in 1..Len(candidates) :
                        feedback_pattern(guess, candidates[i]) = p})]

RECURSIVE SumOver(_, _)
SumOver(f, keys) ==
    IF keys = {} THEN 0
    ELSE LET k == CHOOSE x \in keys : TRUE
         IN  f[k] + SumOver(f, keys \ {k})

\* a / b rounded to the nearest integer, for a >= 0 and b > 0: the model's
\* numbers carry three decimal digits where the source's floats carry 53 bits,
\* and every arithmetic result is rounded to the nearest one as theirs is.
RoundDiv(a, b) == (2 * a + b) \div (2 * b)

\* prob = count / total, in thousandths.
Prob(count, total) == RoundDiv(1000 * count, total)

\* -math.log2(prob) in thousandths of a bit, for the values prob can take with
\* total <= 8.
NegLog2(prob) ==
    CASE prob = 1000 -> 0
      [] prob = 875 -> 193
      [] prob = 857 -> 223
      [] prob = 833 -> 264
      [] prob = 800 -> 322
      [] prob = 750 -> 415
      [] prob = 714 -> 486
      [] prob = 667 -> 584
      [] prob = 625 -> 678
      [] prob = 600 -> 737
      [] prob = 571 -> 808
      [] prob = 500 -> 1000
      [] prob = 429 -> 1221
      [] prob = 400 -> 1322
      [] prob = 375 -> 1415
      [] prob = 333 -> 1586
      [] prob = 286 -> 1806
      [] prob = 250 -> 2000
      [] prob = 200 -> 2322
      [] prob = 167 -> 2582
      [] prob = 143 -> 2806
      [] prob = 125 -> 3000

\* A plausible slip: the loop runs over the candidates, one term of
\* probability 1 / total each, instead of over the pattern classes.
expected_entropy_per_candidate(guess, candidates) ==
    LET total == Len(candidates)
    IN  IF total = 0 THEN 0
        ELSE total * RoundDiv(Prob(1, total) * NegLog2(Prob(1, total)), 1000)

\* entropy -= prob * math.log2(prob) for every class, in thousandths of a bit,
\* computed as the source does: the quotient, its logarithm and the product are
\* each rounded, and the terms are added up.  No class, no term: an empty
\* candidate list gives 0.0.
expected_entropy(guess, candidates) ==
    LET partitions == Partitions(guess, candidates)
        total == Len(candidates)
        terms == [p \in DOMAIN partitions |->
                    LET prob == Prob(partitions[p], total)
                    IN  RoundDiv(prob * NegLog2(prob), 1000)]
    IN  SumOver(terms, DOMAIN terms)

\* wordfreq's zipf_frequency(word, "en") in hundredths; 0 for an unknown word.
zipf_frequency(word) ==
    CASE word = crane -> 350
      [] word = plate -> 447
      [] word = slate -> 386
      [] word = stale -> 350
      [] word = trace -> 429
      [] OTHER -> 0

Max(a, b) == IF a > b THEN a ELSE b
Min(a, b) == IF a < b THEN a ELSE b

\* alpha * ent + (1 - alpha) * freq_norm in units of 1/60000, alpha in tenths:
\* freq_norm = (clamp(freq, 1.0, 7.0) - 1.0) / 6.0.
hybrid_score(guess, candidates, alpha) ==
    LET ent == expected_entropy(guess, candidates)
        freq == zipf_frequency(guess)
        freq_clamped == Max(Min(freq, 700), 100)
    IN  alpha * ent * 6 + (10 - alpha) * (freq_clamped - 100) * 10

\* The default alpha=0.7 of hybrid_score, in tenths.
DefaultAlpha == 7

\* A plausible slip: the worker drops the alpha it was handed.
score_word_worker_default_alpha(args) ==
    <<hybrid_score(args[1], args[2], DefaultAlpha), args[1]>>

\* _score_word_worker(args) with args = (word, candidates, alpha).
score_word_worker(args) ==
    <<hybrid_score(args[1], args[2], args[3]), args[1]>>

-----------------------------------------------------------------------------
(* Ranking: scores.sort(reverse=True) and the top-k slice *)

\* Python's str `<` on two lowercase words of equal length.
RECURSIVE WordLessFrom(_, _, _)
WordLessFrom(a, b, i) ==
    IF i > Len(a) \/ i > Len(b) THEN Len(a) < Len(b)
    ELSE IF a[i] = b[i] THEN WordLessFrom(a, b, i + 1)
    ELSE Ord(a[i]) < Ord(b[i])

WordLess(a, b) == WordLessFrom(a, b, 1)

\* A plausible slip: the sort key is the score alone, as with key=lambda t: t[0].
TupleLess_score_only(x, y) == x[1] < y[1]

\* Python's tuple `<` on (score, word) pairs.
TupleLess(x, y) == x[1] < y[1] \/ (x[1] = y[1] /\ WordLess(x[2], y[2]))

\* Insert x into a descending list behind every element not less than it.
RECURSIVE InsertDesc(_, _)
InsertDesc(sorted, x) ==
    IF sorted = << >> THEN <<x>>
    ELSE IF TupleLess(Head(sorted), x) THEN <<x>> \o sorted
    ELSE <<Head(sorted)>> \o InsertDesc(Tail(sorted), x)

\* list.sort(reverse=True): descending, equal elements in their original order.
RECURSIVE SortDescFrom(_, _, _)
SortDescFrom(scores, i, acc) ==
    IF i > Len(scores) THEN acc
    ELSE SortDescFrom(scores, i + 1, InsertDesc(acc, scores[i]))

SortDesc(scores) == SortDescFrom(scores, 1, << >>)

\* [w for _, w in scores[:topk]] for topk >= 0.
TopWords(scores, topk) ==
    [i \in 1..Min(topk, Len(scores)) |-> scores[i][2]]

\* The serial path of suggest_guesses (lines 243-248).
SerialPath(guess_pool, candidates, alpha, topk) ==
    LET scores == [i \in 1..Len(guess_pool) |->
                     <<hybrid_score(guess_pool[i], candidates, alpha), guess_pool[i]>>]
    IN  TopWords(SortDesc(scores), topk)

\* args = [(w, candidates, alpha) for w in guess_pool]
WorkerArgs(guess_pool, candidates, alpha) ==
    [i \in 1..Len(guess_pool) |-> <<guess_pool[i], candidates, alpha>>]

\* list(executor.map(...)): the workers' results in the order of args, whatever
\* the order they completed in.
ExecutorMap(results, n) == [i \in 1..n |-> results[i]]

\* The parallel path of suggest_guesses (lines 251-260) once every worker has
\* returned.
ParallelPath(guess_pool, candidates, alpha, topk) ==
    LET args == WorkerArgs(guess_pool, candidates, alpha)
        results == [i \in 1..Len(args) |-> score_word_worker(args[i])]
        scores == ExecutorMap(results, Len(args))
    IN  TopWords(SortDesc(scores), topk)

-----------------------------------------------------------------------------
(* suggest_guesses and the WordleSolver object *)

\* `if len(guess_pool) < 500`: pools shorter than this are scored serially.
\* The source's limit is 500; the model keeps the comparison and scales the
\* limit down to the size of its dictionary, so that both paths are taken.
SerialPoolLimit == 4

\* A plausible slip: a pool of exactly the limit is still scored serially.
suggest_guesses_serial_at_limit(candidates, all_words, alpha, topk, restrict_guesses, workers_ok) ==
    LET guess_pool == IF restrict_guesses THEN candidates ELSE all_words
    IN  IF Len(guess_pool) <= SerialPoolLimit
        THEN [path |-> "serial", raised |-> FALSE,
              suggestions |-> SerialPath(guess_pool, candidates, alpha, topk)]
        ELSE IF workers_ok
             THEN [path |-> "parallel", raised |-> FALSE,
                   suggestions |-> ParallelPath(guess_pool, candidates, alpha, topk)]
             ELSE [path |-> "parallel", raised |-> TRUE, suggestions |-> << >>]

\* suggest_guesses.  workers_ok says whether every worker process of the
\* parallel path returns; when one does not, executor.map raises.
suggest_guesses(candidates, all_words, alpha, topk, restrict_guesses, workers_ok) ==
    LET guess_pool == IF restrict_guesses THEN candidates ELSE all_words
    IN  IF Len(guess_pool) < SerialPoolLimit
        THEN [path |-> "serial", raised |-> FALSE,
              suggestions |-> SerialPath(guess_pool, candidates, alpha, topk)]
        ELSE IF workers_ok
             THEN [path |-> "parallel", raised |-> FALSE,
                   suggestions |-> ParallelPath(guess_pool, candidates, alpha, topk)]
             ELSE [path |-> "parallel", raised |-> TRUE, suggestions |-> << >>]

\* The outcome of fetching the past answers: the request failed, or the list.
ScrapeOutcomes ==
    {[ok |-> FALSE, past_answers |-> {}],
     [ok |-> TRUE, past_answers |-> {plate, eerie}]}

\* build_dictionary(n_top, filter_past_answers)
build_dictionary(filter_past_answers, scrape) ==
    IF filter_past_answers /\ scrape.ok
    THEN SelectSeq(Dictionary, LAMBDA w : w \notin scrape.past_answers)
    ELSE Dictionary

\* WordleSolver.__init__
WordleSolver_init(filter_past_answers, scrape) ==
    LET all_words == build_dictionary(FALSE, scrape)
    IN  [all_words |-> all_words,
         candidates |-> IF filter_past_answers
                        THEN build_dictionary(TRUE, scrape)
                        ELSE all_words,
         history |-> << >>]

\* WordleSolver.suggest_initial_guess
WordleSolver_suggest_initial_guess(self, alpha, topk, restrict_guesses, workers_ok) ==
    suggest_guesses(self.candidates, self.all_words, alpha, topk,
                    restrict_guesses, workers_ok)

\* A plausible slip: every guess filters the full dictionary again.
WordleSolver_guess_refilter_all(self, word, pattern, alpha, topk, restrict_guesses, workers_ok) ==
    LET candidates == filter_candidates(self.all_words, word, pattern)
        after == [self EXCEPT !.history = Append(self.history, <<word, pattern>>),
                              !.candidates = candidates]
        s == suggest_guesses(candidates, self.all_words, alpha, topk,
                             restrict_guesses, workers_ok)
    IN  IF Len(candidates) = 0
        THEN [self |-> after, raised |-> FALSE, path |-> "none", suggestions |-> << >>]
        ELSE IF Len(candidates) = 1
        THEN [self |-> after, raised |-> FALSE, path |-> "none",
              suggestions |-> candidates]
        ELSE [self |-> after, raised |-> s.raised, path |-> s.path,
              suggestions |-> s.suggestions]

\* A plausible slip: the single-candidate branch is missing, so a solved
\* session is ranked like an active one.
WordleSolver_guess_no_solved_branch(self, word, pattern, alpha, topk, restrict_guesses, workers_ok) ==
    LET candidates == filter_candidates(self.candidates, word, pattern)
        after == [self EXCEPT !.history = Append(self.history, <<word, pattern>>),
                              !.candidates = candidates]
        s == suggest_guesses(candidates, self.all_words, alpha, topk,
                             restrict_guesses, workers_ok)
    IN  IF Len(candidates) = 0
        THEN [self |-> after, raised |-> FALSE, path |-> "none", suggestions |-> << >>]
        ELSE [self |-> after, raised |-> s.raised, path |-> s.path,
              suggestions |-> s.suggestions]

\* WordleSolver.guess: the object it leaves, whether it raised, which path of
\* suggest_guesses it took ("none" when it did not call it) and what it returned.
WordleSolver_guess(self, word, pattern, alpha, topk, restrict_guesses, workers_ok) ==
    LET candidates == filter_candidates(self.candidates, word, pattern)
        after == [self EXCEPT !.history = Append(self.history, <<word, pattern>>),
                              !.candidates = candidates]
        s == suggest_guesses(candidates, self.all_words, alpha, topk,
                             restrict_guesses, workers_ok)
    IN  IF Len(candidates) = 0
        THEN [self |-> after, raised |-> FALSE, path |-> "none", suggestions |-> << >>]
        ELSE IF Len(candidates) = 1
        THEN [self |-> after, raised |-> FALSE, path |-> "none",
              suggestions |-> candidates]
        ELSE [self |-> after, raised |-> s.raised, path |-> s.path,
              suggestions |-> s.suggestions]

\* WordleSolver.reset
WordleSolver_reset(self) ==
    [self EXCEPT !.candidates = self.all_words, !.history = << >>]

-----------------------------------------------------------------------------
(* main.py: request validation and the handlers *)

\* str.lower() on one character.
Lower(ch) ==
    CASE ch = "A" -> "a"
      [] ch = "C" -> "c"
      [] ch = "E" -> "e"
      [] ch = "N" -> "n"
      [] ch = "R" -> "r"
      [] OTHER -> ch

\* request.word.lower()
lower(word) == [i \in 1..Len(word) |-> Lower(word[i])]

\* The GuessRequest model: word of min_length = max_length = 5, a pattern of
\* five integers, 0 <= alpha <= 1, topk >= 1.  A request that fails is
\* answered 422 before submit_guess runs.
GuessRequest_validate(request) ==
    /\ Len(request.word) = WordLen
    /\ Len(request.pattern) = WordLen
    /\ request.alpha \in 0..10
    /\ request.topk >= 1

\* A plausible slip: the alphabetic test left out.
word_ok_length_only(word) == Len(word) = WordLen

\* `word.isalpha() and len(word) == 5` on the lowercased word.
word_ok(word) ==
    /\ Len(word) > 0
    /\ \A i \in 1..Len(word) : word[i] \in Range(Letters)
    /\ Len(word) = WordLen

\* A plausible slip: the pattern accepted as it comes.
pattern_ok_unchecked(pattern) == TRUE

\* all(p in [0, 1, 2] for p in request.pattern)
pattern_ok(pattern) == \A i \in 1..Len(pattern) : pattern[i] \in {0, 1, 2}

Error(op, status, path, request) ==
    [op |-> op, status |-> status, path |-> path, request |-> request]

\* A plausible slip: the message of a solved session is built before the
\* candidate count is looked at, so an empty candidate list raises IndexError
\* and the request is answered 500.
submit_guess_message_first(registry, request, workers_ok) ==
    IF ~GuessRequest_validate(request)
    THEN [sessions |-> registry, response |-> Error("guess", 422, "none", request)]
    ELSE IF request.session_id \notin DOMAIN registry
    THEN [sessions |-> registry, response |-> Error("guess", 404, "none", request)]
    ELSE IF ~word_ok(lower(request.word))
    THEN [sessions |-> registry, response |-> Error("guess", 400, "none", request)]
    ELSE IF ~pattern_ok(request.pattern)
    THEN [sessions |-> registry, response |-> Error("guess", 400, "none", request)]
    ELSE
        LET r == WordleSolver_guess(registry[request.session_id],
                                    lower(request.word), request.pattern,
                                    request.alpha, request.topk,
                                    request.restrict_guesses, workers_ok)
            solver == r.self
            after == [registry EXCEPT ![request.session_id] = solver]
            is_solved == Len(solver.candidates) = 1
        IN  IF r.raised \/ Len(solver.candidates) = 0
            THEN [sessions |-> after,
                  response |-> Error("guess", 500, r.path, request)]
            ELSE [sessions |-> after,
                  response |->
                    [op |-> "guess", status |-> 200, path |-> r.path,
                     request |-> request,
                     suggestions |-> r.suggestions,
                     candidates_remaining |-> Len(solver.candidates),
                     is_solved |-> is_solved,
                     message |-> IF is_solved
                                 THEN <<"Solved! Answer is", solver.candidates[1]>>
                                 ELSE << >>]]

\* A plausible slip: the count reported is the one read before solver.guess ran.
submit_guess_stale_count(registry, request, workers_ok) ==
    IF ~GuessRequest_validate(request)
    THEN [sessions |-> registry, response |-> Error("guess", 422, "none", request)]
    ELSE IF request.session_id \notin DOMAIN registry
    THEN [sessions |-> registry, response |-> Error("guess", 404, "none", request)]
    ELSE IF ~word_ok(lower(request.word))
    THEN [sessions |-> registry, response |-> Error("guess", 400, "none", request)]
    ELSE IF ~pattern_ok(request.pattern)
    THEN [sessions |-> registry, response |-> Error("guess", 400, "none", request)]
    ELSE
        LET r == WordleSolver_guess(registry[request.session_id],
                                    lower(request.word), request.pattern,
                                    request.alpha, request.topk,
                                    request.restrict_guesses, workers_ok)
            solver == r.self
            after == [registry EXCEPT ![request.session_id] = solver]
            remaining == Len(registry[request.session_id].candidates)
            is_solved == remaining = 1
        IN  IF r.raised
            THEN [sessions |-> after,
                  response |-> Error("guess", 500, r.path, request)]
            ELSE [sessions |-> after,
                  response |->
                    [op |-> "guess", status |-> 200, path |-> r.path,
                     request |-> request,
                     suggestions |-> r.suggestions,
                     candidates_remaining |-> remaining,
                     is_solved |-> is_solved,
                     message |-> IF Len(solver.candidates) = 0
                                 THEN <<"No candidates remain - check your pattern">>
                                 ELSE IF is_solved
                                 THEN <<"Solved! Answer is", solver.candidates[1]>>
                                 ELSE << >>]]

\* submit_guess, with the validation FastAPI runs before it: the registry it
\* leaves and the response.  `message` is a sequence: empty for None.
submit_guess(registry, request, workers_ok) ==
    IF ~GuessRequest_validate(request)
    THEN [sessions |-> registry, response |-> Error("guess", 422, "none", request)]
    ELSE IF request.session_id \notin DOMAIN registry
    THEN [sessions |-> registry, response |-> Error("guess", 404, "none", request)]
    ELSE IF ~word_ok(lower(request.word))
    THEN [sessions |-> registry, response |-> Error("guess", 400, "none", request)]
    ELSE IF ~pattern_ok(request.pattern)
    THEN [sessions |-> registry, response |-> Error("guess", 400, "none", request)]
    ELSE
        LET r == WordleSolver_guess(registry[request.session_id],
                                    lower(request.word), request.pattern,
                                    request.alpha, request.topk,
                                    request.restrict_guesses, workers_ok)
            solver == r.self
            after == [registry EXCEPT ![request.session_id] = solver]
            is_solved == Len(solver.candidates) = 1
        IN  IF r.raised
            THEN [sessions |-> after,
                  response |-> Error("guess", 500, r.path, request)]
            ELSE [sessions |-> after,
                  response |->
                    [op |-> "guess", status |-> 200, path |-> r.path,
                     request |-> request,
                     suggestions |-> r.suggestions,
                     candidates_remaining |-> Len(solver.candidates),
                     is_solved |-> is_solved,
                     message |-> IF Len(solver.candidates) = 0
                                 THEN <<"No candidates remain - check your pattern">>
                                 ELSE IF is_solved
                                 THEN <<"Solved! Answer is", solver.candidates[1]>>
                                 ELSE << >>]]

\* reset_session
reset_session(registry, request) ==
    IF request.session_id \notin DOMAIN registry
    THEN [sessions |-> registry, response |-> Error("reset", 404, "none", request)]
    ELSE [sessions |-> [registry EXCEPT ![request.session_id] =
                            WordleSolver_reset(registry[request.session_id])],
          response |-> [op |-> "reset", status |-> 200, path |-> "none",
                        request |-> request]]

\* initialize_solver: a new solver stored under a fresh uuid4 session_id,
\* unless the initial suggestions raise.
initialize_solver(registry, request, session_id, scrape, workers_ok) ==
    LET solver == WordleSolver_init(request.filter_past_answers, scrape)
        s == WordleSolver_suggest_initial_guess(solver, request.alpha,
                                                request.topk,
                                                request.restrict_guesses,
                                                workers_ok)
    IN  IF s.raised
        THEN [sessions |-> registry,
              response |-> Error("init", 500, s.path, request)]
        ELSE [sessions |-> [id \in DOMAIN registry \cup {session_id} |->
                               IF id = session_id THEN solver ELSE registry[id]],
              response |-> [op |-> "init", status |-> 200, path |-> s.path,
                            request |-> request,
                            session_id |-> session_id,
                            suggestions |-> s.suggestions,
                            total_candidates |-> Len(solver.candidates)]]

\* A plausible slip: sessions.clear() where one key was to be deleted.
delete_session_all(registry, request) ==
    IF request.session_id \notin DOMAIN registry
    THEN [sessions |-> registry, response |-> Error("delete", 404, "none", request)]
    ELSE [sessions |-> [id \in {} |-> registry[id]],
          response |-> [op |-> "delete", status |-> 200, path |-> "none",
                        request |-> request]]

\* delete_session
delete_session(registry, request) ==
    IF request.session_id \notin DOMAIN registry
    THEN [sessions |-> registry, response |-> Error("delete", 404, "none", request)]
    ELSE [sessions |-> [id \in DOMAIN registry \ {request.session_id} |->
                            registry[id]],
          response |-> [op |-> "delete", status |-> 200, path |-> "none",
                        request |-> request]]

-----------------------------------------------------------------------------
(* The codec on its own: every pair of bounded words is encoded once *)

\* The letters the exhaustive codec inputs are built from.
CodecLetters == {"a", "e", "r"}

\* All words over CodecLetters, and the named words.
CodecWords == [1..WordLen -> CodecLetters] \cup Range(Dictionary) \cup {eerie}

\* The codec has not been called yet; a pattern is never empty.
Unset == << >>

IdleSolver ==
    /\ sessions = << >>
    /\ created = << >>
    /\ before = << >>
    /\ response = << >>

IdleCodec ==
    /\ cguess = << >>
    /\ ctarget = << >>
    /\ cout = Unset

IdleDispatch ==
    /\ dargs = << >>
    /\ dphase = "idle"
    /\ dresults = << >>
    /\ dorder = << >>
    /\ dout = << >>

IdleFunction ==
    /\ fin = << >>
    /\ fout = << >>

IdleRace ==
    /\ rpc = << >>
    /\ rreq = << >>
    /\ rlocal = << >>

InitCodec ==
    /\ cguess \in CodecWords
    /\ ctarget \in CodecWords
    /\ cout = Unset
    /\ IdleSolver
    /\ IdleDispatch
    /\ IdleFunction
    /\ IdleRace

\* One call feedback_pattern(cguess, ctarget).
Encode ==
    /\ cout = Unset
    /\ cout' = feedback_pattern(cguess, ctarget)
    /\ UNCHANGED <<cguess, ctarget, solverVars, dispatchVars, functionVars, raceVars>>

NextCodec == Encode

SpecCodec == InitCodec /\ [][NextCodec]_vars

\* The reference two-pass result, kept as letter counts instead of a slot list.
\* Occurrences of ch in target that no CORRECT mark consumed.
Unmatched(guess, target, ch) ==
    Cardinality({i \in 1..WordLen : target[i] = ch /\ guess[i] # ch})

RECURSIVE RefScan(_, _, _, _, _)
RefScan(guess, target, i, left, acc) ==
    IF i > WordLen THEN acc
    ELSE IF guess[i] = target[i]
         THEN RefScan(guess, target, i + 1, left, Append(acc, 2))
         ELSE IF left[guess[i]] > 0
              THEN RefScan(guess, target, i + 1,
                           [left EXCEPT ![guess[i]] = @ - 1], Append(acc, 1))
              ELSE RefScan(guess, target, i + 1, left, Append(acc, 0))

RefFeedback(guess, target) ==
    RefScan(guess, target, 1,
            [ch \in Range(guess) |-> Unmatched(guess, target, ch)], << >>)

\* C9: feedback_pattern(guess, target) equals the reference two-pass result for
\* every pair of 5-letter words, repeated letters included, and
\* feedback("crane", "trace") is (1, 2, 2, 0, 2).
C9_FeedbackIsTwoPass ==
    cout # Unset =>
        /\ cout = RefFeedback(cguess, ctarget)
        /\ (cguess = crane /\ ctarget = trace) => cout = <<1, 2, 2, 0, 2>>

\* A repeated letter of the guess marked PRESENT once and ABSENT later, its
\* single free occurrence in the target being consumed by the earlier mark.
C9_Witness ==
    /\ cout # Unset
    /\ \E i, j \in 1..WordLen :
        /\ i < j
        /\ cguess[i] = cguess[j]
        /\ cout[i] = 1
        /\ cout[j] = 0
        /\ \E k \in 1..WordLen : ctarget[k] = cguess[i]

\* C10: feedback_pattern(w, w) is (2, 2, 2, 2, 2) for every 5-letter word w.
C10_SelfFeedbackAllCorrect ==
    (cout # Unset /\ cguess = ctarget) => cout = [i \in 1..WordLen |-> 2]

C10_Witness ==
    /\ cguess = eerie
    /\ ctarget = eerie
    /\ cout = <<2, 2, 2, 2, 2>>

-----------------------------------------------------------------------------
(* The parallel path of suggest_guesses on its own: the worker processes    *)
(* complete in any order                                                    *)

\* Longest guess pool handed to the dispatcher on its own.
MaxPool == 3

\* The words guess pools are built from.
PoolWords == {crane, slate, trace, eerie}

\* Duplicate-free pools of at most MaxPool words, in any order.
Pools ==
    UNION {{p \in [1..n -> PoolWords] : \A i, j \in 1..n : i # j => p[i] # p[j]} :
              n \in 1..MaxPool}

DispatchCandidates ==
    {Dictionary, <<crane, trace>>, <<plate, slate, stale>>, <<slate>>}

Alphas == {0, 7, 10}
TopKs == {1, 2, 5}

InitDispatch ==
    /\ dargs \in [guess_pool : Pools, candidates : DispatchCandidates,
                  alpha : Alphas, topk : TopKs]
    /\ dphase = "submitted"
    /\ dresults = << >>
    /\ dorder = << >>
    /\ dout = << >>
    /\ IdleSolver
    /\ IdleCodec
    /\ IdleFunction
    /\ IdleRace

DispatchTasks == WorkerArgs(dargs.guess_pool, dargs.candidates, dargs.alpha)

\* The worker process running task i returns its (score, word).
WorkerCompletes(i) ==
    /\ dphase = "submitted"
    /\ i \in DOMAIN DispatchTasks
    /\ i \notin DOMAIN dresults
    /\ dresults' = [j \in DOMAIN dresults \cup {i} |->
                      IF j = i THEN score_word_worker(DispatchTasks[i])
                      ELSE dresults[j]]
    /\ dorder' = Append(dorder, i)
    /\ UNCHANGED <<dargs, dphase, dout, solverVars, codecVars, functionVars, raceVars>>

\* The worker process running task i dies or raises: executor.map re-raises in
\* the parent and suggest_guesses returns nothing.
WorkerFails(i) ==
    /\ dphase = "submitted"
    /\ i \in DOMAIN DispatchTasks
    /\ i \notin DOMAIN dresults
    /\ dphase' = "failed"
    /\ UNCHANGED <<dargs, dresults, dorder, dout, solverVars, codecVars, functionVars, raceVars>>

\* Every worker has returned: list(executor.map(...)), sort, slice.
Collect ==
    /\ dphase = "submitted"
    /\ DOMAIN dresults = DOMAIN DispatchTasks
    /\ dout' = TopWords(SortDesc(ExecutorMap(dresults, Len(DispatchTasks))),
                        dargs.topk)
    /\ dphase' = "done"
    /\ UNCHANGED <<dargs, dresults, dorder, solverVars, codecVars, functionVars, raceVars>>

NextDispatch ==
    \/ \E i \in DOMAIN DispatchTasks : WorkerCompletes(i)
    \/ \E i \in DOMAIN DispatchTasks : WorkerFails(i)
    \/ Collect

SpecDispatch == InitDispatch /\ [][NextDispatch]_vars

\* C5: whatever the order the workers complete in, the list the parallel path
\* returns is the list the serial path returns on the same pool, candidates,
\* alpha and topk.
C5_ParallelEqualsSerial ==
    dphase = "done" =>
        dout = SerialPath(dargs.guess_pool, dargs.candidates, dargs.alpha, dargs.topk)

\* The workers completed in an order other than the order of submission and
\* the parallel path returned more than one word.
C5_Witness ==
    /\ dphase = "done"
    /\ Len(dout) >= 2
    /\ \E i, j \in 1..Len(dorder) : i < j /\ dorder[i] > dorder[j]

-----------------------------------------------------------------------------
(* One solver session driven through the HTTP handlers *)

\* Longest history a session is driven to.
MaxHistory == 2

\* The id uuid4 gave the session, and an id no session has.
SessionId == "s1"
UnknownId == "s0"

\* Guess words as the client may send them: dictionary and other words, an
\* uppercase spelling, a digit inside, a letter missing.
upperCrane == <<"C", "R", "A", "N", "E">>
digitCrane == <<"c", "r", "4", "n", "e">>
shortCrane == <<"c", "r", "a", "n">>

GuessWords == {crane, stale, eerie}

\* Patterns as the client may send them: the true feedback of crane against
\* trace and against slate, of eerie against trace, and a pattern no
\* dictionary word gives to any guess word.
GuessPatterns ==
    {feedback_pattern(crane, trace), feedback_pattern(crane, slate),
     feedback_pattern(eerie, trace), <<0, 0, 0, 0, 0>>}

SessionAlphas == {7}
SessionTopKs == {2}

WellFormedRequests ==
    [session_id : {SessionId}, word : GuessWords, pattern : GuessPatterns,
     alpha : SessionAlphas, topk : SessionTopKs, restrict_guesses : BOOLEAN]

BaseRequest ==
    [session_id |-> SessionId, word |-> crane, pattern |-> <<1, 2, 2, 0, 2>>,
     alpha |-> 7, topk |-> 5, restrict_guesses |-> FALSE]

\* An uppercase spelling is lowercased and accepted.
UppercaseRequests == {[BaseRequest EXCEPT !.word = upperCrane]}

\* One request for each way of being rejected.
RejectedRequests ==
    {[BaseRequest EXCEPT !.session_id = UnknownId],
     [BaseRequest EXCEPT !.word = shortCrane],
     [BaseRequest EXCEPT !.word = digitCrane],
     [BaseRequest EXCEPT !.pattern = <<0, 1, 2, 0, 3>>],
     [BaseRequest EXCEPT !.pattern = <<0, 1, 2, 0>>],
     [BaseRequest EXCEPT !.topk = 0]}

GuessRequests == WellFormedRequests \cup UppercaseRequests \cup RejectedRequests

\* The request passes every check and reaches WordleSolver.guess.
Accepted(registry, request) ==
    /\ GuessRequest_validate(request)
    /\ request.session_id \in DOMAIN registry
    /\ word_ok(lower(request.word))
    /\ pattern_ok(request.pattern)

\* The state after a successful POST /init: one session in the registry.
Init ==
    /\ \E filter_past_answers \in BOOLEAN, scrape \in ScrapeOutcomes,
          restrict_guesses \in BOOLEAN :
        LET solver == WordleSolver_init(filter_past_answers, scrape)
            s == WordleSolver_suggest_initial_guess(solver, DefaultAlpha, 5,
                                                    restrict_guesses, TRUE)
        IN  /\ sessions = [id \in {SessionId} |-> solver]
            /\ created = [id \in {SessionId} |-> solver.candidates]
            /\ before = solver
            /\ response = [op |-> "init", status |-> 200, path |-> s.path,
                           request |-> [restrict_guesses |-> restrict_guesses],
                           suggestions |-> s.suggestions,
                           total_candidates |-> Len(solver.candidates)]
    /\ IdleCodec
    /\ IdleDispatch
    /\ IdleFunction
    /\ IdleRace

\* POST /guess
SubmitGuess(request, workers_ok) ==
    /\ Accepted(sessions, request) =>
           Len(sessions[request.session_id].history) < MaxHistory
    /\ \E r \in {submit_guess(sessions, request, workers_ok)} :
           /\ sessions' = r.sessions
           /\ response' = r.response
    /\ before' = IF request.session_id \in DOMAIN sessions
                 THEN sessions[request.session_id]
                 ELSE before
    /\ UNCHANGED <<created, codecVars, dispatchVars, functionVars, raceVars>>

\* POST /reset
ResetSession(request) ==
    /\ \E r \in {reset_session(sessions, request)} :
           /\ sessions' = r.sessions
           /\ response' = r.response
    /\ before' = IF request.session_id \in DOMAIN sessions
                 THEN sessions[request.session_id]
                 ELSE before
    /\ UNCHANGED <<created, codecVars, dispatchVars, functionVars, raceVars>>

Next ==
    \/ \E request \in GuessRequests, workers_ok \in BOOLEAN :
          SubmitGuess(request, workers_ok)
    \/ \E id \in {SessionId, UnknownId} : ResetSession([session_id |-> id])

Spec == Init /\ [][Next]_vars

\* The solver the last request was addressed to.
Solver == sessions[SessionId]

ToKnownSession == response.request.session_id = SessionId

Candidates == Solver.candidates
History == Solver.history

\* The last request was a POST /guess addressed to the session.
GuessDone == response.op = "guess" /\ ToKnownSession

\* C1: reset() leaves the CandidateSet equal to the one the session had right
\* after creation, and the history empty, whatever the options of creation.
C1_ResetRestoresCreated ==
    (response.op = "reset" /\ response.status = 200) =>
        /\ Candidates = created[SessionId]
        /\ History = << >>

\* C2: every candidate gives, against every guess of the history, the pattern
\* recorded with that guess.
C2_CandidatesConsistent ==
    \A id \in DOMAIN sessions :
        \A i \in 1..Len(sessions[id].candidates) :
            \A k \in 1..Len(sessions[id].history) :
                feedback_pattern(sessions[id].history[k][1],
                                 sessions[id].candidates[i])
                    = sessions[id].history[k][2]

\* Two different guesses recorded and one candidate left.
C2_Witness ==
    /\ Len(History) = 2
    /\ History[1][1] # History[2][1]
    /\ Len(Candidates) = 1
    /\ Len(before.candidates) > 1

\* C3: a guess leaves a CandidateSet that is a subset of the one it found, so
\* no larger; a step that adds a candidate is a reset.
C3_OnlyResetGrows ==
    [][LET old == sessions[SessionId].candidates
           new == sessions'[SessionId].candidates
       IN  /\ response'.op = "guess" =>
                 /\ Range(new) \subseteq Range(old)
                 /\ Len(new) <= Len(old)
           /\ ~(Range(new) \subseteq Range(old)) => response'.op = "reset"]_vars

\* A second guess that removed some of the candidates and left some.
C3_Witness ==
    /\ GuessDone
    /\ response.status = 200
    /\ Len(History) = 2
    /\ Len(Candidates) > 0
    /\ Len(Candidates) < Len(before.candidates)

\* C4 as stated: the dispatcher runs exactly when two or more candidates
\* remain, and with one or no candidate left the suggestion list is empty.
C4_NoSuggestionsUnlessActive ==
    (GuessDone /\ response.status = 200) =>
        /\ (response.path # "none") <=> (Len(Candidates) >= 2)
        /\ Len(Candidates) <= 1 => response.suggestions = << >>

\* C4 amended: guess appends the record, filters the candidates and calls the
\* dispatcher exactly when two or more candidates remain, returning its
\* list; with one candidate left it returns the list holding that candidate,
\* with none left the empty list.
C4_SolvedReturnsTheAnswer ==
    (GuessDone /\ response.status \in {200, 500}) =>
        /\ History = Append(before.history,
                            <<lower(response.request.word), response.request.pattern>>)
        /\ Candidates = filter_candidates(before.candidates,
                                          lower(response.request.word),
                                          response.request.pattern)
        /\ (response.path # "none") <=> (Len(Candidates) >= 2)
        /\ (response.status = 200 /\ Len(Candidates) >= 2) =>
              response.suggestions =
                  TopWords(SortDesc([i \in 1..Len(IF response.request.restrict_guesses
                                                  THEN Candidates
                                                  ELSE Solver.all_words) |->
                      LET w == (IF response.request.restrict_guesses
                                THEN Candidates ELSE Solver.all_words)[i]
                      IN  <<hybrid_score(w, Candidates, response.request.alpha), w>>]),
                           response.request.topk)
        /\ Len(Candidates) = 1 =>
              response.status = 200 /\ response.suggestions = Candidates
        /\ Len(Candidates) = 0 =>
              response.status = 200 /\ response.suggestions = << >>

\* A guess that left one candidate and returned it without the dispatcher.
C4_Witness ==
    /\ GuessDone
    /\ response.status = 200
    /\ Len(Candidates) = 1
    /\ response.path = "none"
    /\ response.suggestions = Candidates

\* C6: when a scoring worker fails the request is answered with an error and
\* the session's CandidateSet and history are what they were before it.
C6_WorkerFailureLeavesSession ==
    (GuessDone /\ response.status = 500) =>
        /\ Candidates = before.candidates
        /\ History = before.history

\* isalpha() on one character.
Alphabetic(ch) == ch \in Range(Letters) \cup {"A", "C", "E", "N", "R"}

\* The word is not exactly five alphabetic characters, or the pattern holds a
\* symbol outside {0, 1, 2}.
Malformed(request) ==
    \/ Len(request.word) # 5
    \/ \E i \in 1..Len(request.word) : ~Alphabetic(request.word[i])
    \/ \E i \in 1..Len(request.pattern) : request.pattern[i] \notin 0..2

\* C7: a request with a malformed word or pattern is answered with an error,
\* the session is left as it was, and nothing is filtered or scored.
C7_MalformedRejected ==
    (GuessDone /\ Malformed(response.request)) =>
        /\ response.status \in {400, 422}
        /\ Solver = before
        /\ response.path = "none"

\* A pattern with the symbol 3 rejected by a session that has a history.
C7_Witness ==
    /\ GuessDone
    /\ response.request.pattern = <<0, 1, 2, 0, 3>>
    /\ response.status = 400
    /\ Len(History) > 0

\* C8: a guess that leaves no candidate is answered normally, with no
\* suggestion, candidates_remaining 0, solved false and a message; and a
\* session with no candidate has none after any further guess, which is not
\* answered with a server error either.
C8_ExhaustedIsNotAnError ==
    GuessDone =>
        /\ (Accepted(sessions, response.request) /\ Len(Candidates) = 0) =>
              /\ response.status = 200
              /\ response.suggestions = << >>
              /\ response.candidates_remaining = 0
              /\ response.is_solved = FALSE
              /\ Len(response.message) > 0
        /\ Len(before.candidates) = 0 =>
              /\ Len(Candidates) = 0
              /\ response.status # 500

\* A further guess submitted to a session that had no candidate left.
C8_Witness ==
    /\ GuessDone
    /\ response.status = 200
    /\ Len(before.candidates) = 0
    /\ Len(before.history) > 0
    /\ Len(History) = Len(before.history) + 1
    /\ response.candidates_remaining = 0

-----------------------------------------------------------------------------
(* filter_candidates on its own, and the same guess submitted twice *)

\* The sublist of s at the positions in I.
RECURSIVE Pick(_, _, _)
Pick(s, I, i) ==
    IF i > Len(s) THEN << >>
    ELSE (IF i \in I THEN <<s[i]>> ELSE << >>) \o Pick(s, I, i + 1)

\* Every candidate list a session over Dictionary can hold.
CandidateLists == {Pick(Dictionary, I, 1) : I \in SUBSET (1..Len(Dictionary))}

\* Every pattern some guess word gets from some dictionary word, and one none gets.
FilterPatterns ==
    {feedback_pattern(g, t) : g \in GuessWords, t \in Range(Dictionary)}
        \cup {<<0, 0, 0, 0, 0>>}

\* fout with the value v recorded under the name k.
Put(f, k, v) == [x \in DOMAIN f \cup {k} |-> IF x = k THEN v ELSE f[x]]

Called(k) == k \in DOMAIN fout

\* A session holding the candidate list of fin.
FilterSession ==
    [all_words |-> Dictionary, candidates |-> fin.candidates, history |-> << >>]

InitFilter ==
    /\ fin \in [candidates : CandidateLists, guess : GuessWords,
                pattern : FilterPatterns]
    /\ fout = << >>
    /\ IdleSolver
    /\ IdleCodec
    /\ IdleDispatch
    /\ IdleRace

\* filter_candidates(C, g, p)
FilterOnce ==
    /\ ~Called("once")
    /\ fout' = Put(fout, "once",
                   filter_candidates(fin.candidates, fin.guess, fin.pattern))
    /\ UNCHANGED <<fin, solverVars, codecVars, dispatchVars, raceVars>>

\* filter_candidates(filter_candidates(C, g, p), g, p)
FilterAgain ==
    /\ Called("once")
    /\ ~Called("twice")
    /\ fout' = Put(fout, "twice",
                   filter_candidates(fout["once"], fin.guess, fin.pattern))
    /\ UNCHANGED <<fin, solverVars, codecVars, dispatchVars, raceVars>>

\* WordleSolver.guess(g, p) on the session.
GuessOnce ==
    /\ ~Called("first")
    /\ fout' = Put(fout, "first",
                   WordleSolver_guess(FilterSession, fin.guess, fin.pattern,
                                      DefaultAlpha, 5, FALSE, TRUE).self)
    /\ UNCHANGED <<fin, solverVars, codecVars, dispatchVars, raceVars>>

\* WordleSolver.guess(g, p) on the session once more.
GuessAgain ==
    /\ Called("first")
    /\ ~Called("second")
    /\ fout' = Put(fout, "second",
                   WordleSolver_guess(fout["first"], fin.guess, fin.pattern,
                                      DefaultAlpha, 5, FALSE, TRUE).self)
    /\ UNCHANGED <<fin, solverVars, codecVars, dispatchVars, raceVars>>

NextFilter == FilterOnce \/ FilterAgain \/ GuessOnce \/ GuessAgain

SpecFilter == InitFilter /\ [][NextFilter]_vars

\* C11: filtering a filtered list again by the same guess and pattern changes
\* nothing, and a session given the same guess twice holds after the second
\* submission the candidates it held after the first.
C11_FilterIdempotent ==
    /\ Called("twice") => fout["twice"] = fout["once"]
    /\ Called("second") =>
          /\ fout["second"].candidates = fout["first"].candidates
          /\ Len(fout["second"].history) = 2

\* Both pairs of calls made on a list the filter really shortened, some
\* candidates being left.
C11_Witness ==
    /\ Called("twice")
    /\ Called("second")
    /\ Len(fout["once"]) > 0
    /\ Len(fout["once"]) < Len(fin.candidates)
    /\ fout["first"].candidates = fout["once"]

-----------------------------------------------------------------------------
(* is_consistent against the fold of filter_candidates *)

\* Longest history given to is_consistent.
MaxFold == 2

GuessRecords == GuessWords \X GuessPatterns

\* The histories of at most MaxFold records, the empty one included.
Histories == UNION {[1..n -> GuessRecords] : n \in 0..MaxFold}

InitConsistent ==
    /\ fin \in [word : Range(Dictionary) \cup {eerie}, history : Histories]
    /\ fout = << >>
    /\ IdleSolver
    /\ IdleCodec
    /\ IdleDispatch
    /\ IdleRace

\* is_consistent(w, h)
CheckConsistent ==
    /\ ~Called("consistent")
    /\ fout' = Put(fout, "consistent", is_consistent(fin.word, fin.history))
    /\ UNCHANGED <<fin, solverVars, codecVars, dispatchVars, raceVars>>

\* The fold starts from the list [w].
FoldStart ==
    /\ ~Called("fold")
    /\ fout' = Put(fout, "fold", [list |-> <<fin.word>>, done |-> 0])
    /\ UNCHANGED <<fin, solverVars, codecVars, dispatchVars, raceVars>>

\* The fold filters its list by the next record of h.
FoldRecord ==
    /\ Called("fold")
    /\ fout["fold"].done < Len(fin.history)
    /\ LET k == fout["fold"].done + 1
       IN fout' = Put(fout, "fold",
                      [list |-> filter_candidates(fout["fold"].list,
                                                  fin.history[k][1],
                                                  fin.history[k][2]),
                       done |-> k])
    /\ UNCHANGED <<fin, solverVars, codecVars, dispatchVars, raceVars>>

NextConsistent == CheckConsistent \/ FoldStart \/ FoldRecord

SpecConsistent == InitConsistent /\ [][NextConsistent]_vars

Folded == Called("fold") /\ fout["fold"].done = Len(fin.history)

\* C12: is_consistent(w, h) is true exactly when the fold of filter_candidates
\* over all records of h, started from the list [w], ends non-empty.
C12_ConsistentIsFold ==
    (Called("consistent") /\ Folded) =>
        (fout["consistent"] <=> fout["fold"].list # << >>)

\* A word found consistent with a history of two different records, the fold
\* done.
C12_Witness ==
    /\ Called("consistent")
    /\ Folded
    /\ Len(fin.history) = 2
    /\ fin.history[1] # fin.history[2]
    /\ fout["consistent"]

-----------------------------------------------------------------------------
(* suggest_guesses on its own *)

\* The dictionaries handed to suggest_guesses: the full one, and one shorter
\* than SerialPoolLimit.
SuggestDictionaries == {Dictionary, SubSeq(Dictionary, 1, 3)}

SuggestTopKs == {0, 1, 2, 5}

InitSuggest ==
    /\ \E all_words \in SuggestDictionaries :
          fin \in [all_words : {all_words},
                   candidates : {Pick(all_words, I, 1) :
                                    I \in SUBSET (1..Len(all_words))},
                   alpha : Alphas, topk : SuggestTopKs,
                   restrict_guesses : BOOLEAN]
    /\ fout = << >>
    /\ IdleSolver
    /\ IdleCodec
    /\ IdleDispatch
    /\ IdleRace

\* suggest_guesses(candidates, all_words, alpha, topk, restrict_guesses)
Suggest(workers_ok) ==
    /\ ~Called("suggest")
    /\ fout' = Put(fout, "suggest",
                   suggest_guesses(fin.candidates, fin.all_words, fin.alpha,
                                   fin.topk, fin.restrict_guesses, workers_ok))
    /\ UNCHANGED <<fin, solverVars, codecVars, dispatchVars, raceVars>>

NextSuggest == \E workers_ok \in BOOLEAN : Suggest(workers_ok)

SpecSuggest == InitSuggest /\ [][NextSuggest]_vars

\* The pool the claims speak of, and the list returned.
ChosenPool == IF fin.restrict_guesses THEN fin.candidates ELSE fin.all_words
Suggested == fout["suggest"].suggestions
Returned == Called("suggest") /\ ~fout["suggest"].raised

\* v ranks above w: a higher score, or the same score and the later word.
Outranks(v, w) ==
    LET sv == hybrid_score(v, fin.candidates, fin.alpha)
        sw == hybrid_score(w, fin.candidates, fin.alpha)
    IN  sv > sw \/ (sv = sw /\ WordLess(w, v))

\* C13: suggest_guesses returns at most topk words, all of the chosen pool:
\* the topk highest-ranked words of the pool, in strictly descending order of
\* (score, word), equal scores ordered by descending word.
C13_TopKDescending ==
    Returned =>
        /\ Len(Suggested) = Min(fin.topk, Len(ChosenPool))
        /\ \A i \in 1..Len(Suggested) : Suggested[i] \in Range(ChosenPool)
        /\ \A i, j \in 1..Len(Suggested) :
              i < j => Outranks(Suggested[i], Suggested[j])
        /\ \A w \in Range(ChosenPool) \ Range(Suggested) :
              \A i \in 1..Len(Suggested) : Outranks(Suggested[i], w)

\* Two words of equal score returned, and a pool word left out.
C13_Witness ==
    /\ Returned
    /\ Len(Suggested) = 2
    /\ Len(ChosenPool) > 2
    /\ hybrid_score(Suggested[1], fin.candidates, fin.alpha)
          = hybrid_score(Suggested[2], fin.candidates, fin.alpha)

-----------------------------------------------------------------------------
(* One session: what submit_guess reports and how the candidates move *)

\* C14: after a submitted guess the reported candidates_remaining is the size
\* of the session's CandidateSet and is_solved is true exactly when that size
\* is 1; from {crane, trace, slate, stale, plate} the guess crane with pattern
\* (1,2,2,0,2) leaves exactly {trace}, reported as 1 remaining and solved.
C14_ReportMatchesCandidates ==
    (GuessDone /\ response.status = 200) =>
        /\ response.candidates_remaining = Cardinality(Range(Candidates))
        /\ response.candidates_remaining = Len(Candidates)
        /\ response.is_solved <=> Cardinality(Range(Candidates)) = 1
        /\ ( /\ Range(before.candidates) = {crane, trace, slate, stale, plate}
             /\ lower(response.request.word) = crane
             /\ response.request.pattern = <<1, 2, 2, 0, 2>> ) =>
              /\ Range(Candidates) = {trace}
              /\ response.candidates_remaining = 1
              /\ response.is_solved = TRUE

\* The end-to-end example: crane with (1,2,2,0,2) on the five words.
C14_Witness ==
    /\ GuessDone
    /\ response.status = 200
    /\ Range(before.candidates) = {crane, trace, slate, stale, plate}
    /\ response.request.word = crane
    /\ response.request.pattern = <<1, 2, 2, 0, 2>>
    /\ Candidates = <<trace>>
    /\ response.is_solved

\* The last request reached WordleSolver.guess (it answered, or a worker failed).
GuessCalled == GuessDone /\ response.status \in {200, 500}

\* The word and the pattern WordleSolver.guess was called with.
SentWord == lower(response.request.word)
SentPattern == response.request.pattern

\* Some candidate held before the call gives another pattern than the one sent.
Discriminates ==
    \E c \in Range(before.candidates) : feedback_pattern(SentWord, c) # SentPattern

\* C17: a guess on a non-empty CandidateSet strictly shrinks it exactly when
\* some current candidate gives another pattern than the supplied one, and
\* leaves it unchanged exactly when every current candidate gives that pattern.
C17_ShrinksIffDiscriminates ==
    (GuessCalled /\ before.candidates # << >>) =>
        /\ Discriminates <=>
              /\ Range(Candidates) \subseteq Range(before.candidates)
              /\ Range(Candidates) # Range(before.candidates)
              /\ Len(Candidates) < Len(before.candidates)
        /\ ~Discriminates <=> Candidates = before.candidates

\* A guess whose pattern every one of several candidates gives.
C17_Witness ==
    /\ GuessCalled
    /\ Len(before.candidates) >= 2
    /\ ~Discriminates
    /\ Candidates = before.candidates
    /\ Len(History) = Len(before.history) + 1

\* C19: a target that was a candidate before a guess and gives the supplied
\* pattern is a candidate after it, so a session given only true feedback of a
\* target it started with keeps the target and is never Exhausted; a guess
\* empties a non-empty CandidateSet only with a pattern no candidate gives.
C19_TruthfulKeepsTarget ==
    /\ GuessCalled =>
          /\ \A t \in Range(before.candidates) :
                feedback_pattern(SentWord, t) = SentPattern =>
                    t \in Range(Candidates)
          /\ (before.candidates # << >> /\ Candidates = << >>) =>
                \A t \in Range(before.candidates) :
                    feedback_pattern(SentWord, t) # SentPattern
    /\ \A t \in Range(created[SessionId]) :
          is_consistent(t, History) =>
              /\ t \in Range(Candidates)
              /\ Candidates # << >>

\* Two different guesses answered with the true feedback of a target the
\* session started with.
C19_Witness ==
    /\ GuessCalled
    /\ Len(History) = 2
    /\ History[1] # History[2]
    /\ Len(before.candidates) >= 2
    /\ \E t \in Range(created[SessionId]) :
          /\ is_consistent(t, History)
          /\ t \in Range(Candidates)

-----------------------------------------------------------------------------
(* expected_entropy on its own *)

\* The words the candidate lists are drawn from: against the guess stale every
\* one of them gives a pattern of its own.
EntropyWords == <<crane, eerie, least, plate, slate, stale, trace>>

EntropyLists ==
    {Pick(EntropyWords, I, 1) : I \in SUBSET (1..Len(EntropyWords))} \ {<< >>}

InitEntropy ==
    /\ fin \in [guess : GuessWords, candidates : EntropyLists]
    /\ fout = << >>
    /\ IdleSolver
    /\ IdleCodec
    /\ IdleDispatch
    /\ IdleRace

\* The first loop of expected_entropy: the pattern classes and their counts.
CountPartitions ==
    /\ ~Called("partitions")
    /\ fout' = Put(fout, "partitions", Partitions(fin.guess, fin.candidates))
    /\ UNCHANGED <<fin, solverVars, codecVars, dispatchVars, raceVars>>

\* expected_entropy(g, C)
Entropy ==
    /\ ~Called("entropy")
    /\ fout' = Put(fout, "entropy", expected_entropy(fin.guess, fin.candidates))
    /\ UNCHANGED <<fin, solverVars, codecVars, dispatchVars, raceVars>>

NextEntropy == CountPartitions \/ Entropy

SpecEntropy == InitEntropy /\ [][NextEntropy]_vars

\* The patterns the candidates give against the guess.
Realized ==
    {feedback_pattern(fin.guess, fin.candidates[i]) : i \in 1..Len(fin.candidates)}

\* The classes are the realized patterns, each counted at least once, the
\* counts adding up to |C|.
ClassesRealized ==
    Called("partitions") =>
        /\ DOMAIN fout["partitions"] = Realized
        /\ \A p \in Realized : fout["partitions"][p] >= 1
        /\ SumOver(fout["partitions"], Realized) = Len(fin.candidates)

\* The result is 0 exactly when every candidate gives the same pattern.
ZeroIffOneClass ==
    Called("entropy") => (fout["entropy"] = 0 <=> Cardinality(Realized) = 1)

-----------------------------------------------------------------------------
(* Several sessions in the registry *)

OtherId == "s2"
SessionIds == {SessionId, OtherId}

InitRequests ==
    [filter_past_answers : BOOLEAN, alpha : SessionAlphas, topk : SessionTopKs,
     restrict_guesses : {TRUE}]

SessionGuessRequests ==
    [session_id : SessionIds \cup {UnknownId}, word : {crane},
     pattern : {feedback_pattern(crane, trace), feedback_pattern(crane, slate)},
     alpha : SessionAlphas, topk : SessionTopKs, restrict_guesses : {FALSE}]

SessionRequests == [session_id : SessionIds \cup {UnknownId}]

\* No session yet.
InitSessions ==
    /\ IdleSolver
    /\ IdleCodec
    /\ IdleDispatch
    /\ IdleFunction
    /\ IdleRace

\* POST /init: uuid4 gives an id no session has.
Initialize(request, session_id, scrape, workers_ok) ==
    /\ session_id \notin DOMAIN sessions
    /\ \E r \in {initialize_solver(sessions, request, session_id, scrape, workers_ok)} :
           /\ sessions' = r.sessions
           /\ response' = r.response
    /\ UNCHANGED <<created, before, codecVars, dispatchVars, functionVars, raceVars>>

\* POST /guess
SessionGuess(request, workers_ok) ==
    /\ request.session_id \in DOMAIN sessions =>
           Len(sessions[request.session_id].history) < MaxHistory
    /\ \E r \in {submit_guess(sessions, request, workers_ok)} :
           /\ sessions' = r.sessions
           /\ response' = r.response
    /\ UNCHANGED <<created, before, codecVars, dispatchVars, functionVars, raceVars>>

\* POST /reset
SessionReset(request) ==
    /\ \E r \in {reset_session(sessions, request)} :
           /\ sessions' = r.sessions
           /\ response' = r.response
    /\ UNCHANGED <<created, before, codecVars, dispatchVars, functionVars, raceVars>>

\* DELETE /session/{session_id}
SessionDelete(request) ==
    /\ \E r \in {delete_session(sessions, request)} :
           /\ sessions' = r.sessions
           /\ response' = r.response
    /\ UNCHANGED <<created, before, codecVars, dispatchVars, functionVars, raceVars>>

NextSessions ==
    \/ \E request \in InitRequests, session_id \in SessionIds,
          scrape \in ScrapeOutcomes, workers_ok \in BOOLEAN :
          Initialize(request, session_id, scrape, workers_ok)
    \/ \E request \in SessionGuessRequests, workers_ok \in BOOLEAN :
          SessionGuess(request, workers_ok)
    \/ \E request \in SessionRequests : SessionReset(request)
    \/ \E request \in SessionRequests : SessionDelete(request)

SpecSessions == InitSessions /\ [][NextSessions]_vars

\* The session ids a response's request was addressed to: the id created by a
\* successful init, none for a failed one, the request's id otherwise.
Addressed(rsp) ==
    IF rsp.op = "init"
    THEN IF rsp.status = 200 THEN {rsp.session_id} ELSE {}
    ELSE {rsp.request.session_id}

\* The registry with only the sessions of ids in it.
Only(registry, ids) == [id \in DOMAIN registry \cap ids |-> registry[id]]

SameRegistry(f, g) ==
    /\ DOMAIN f = DOMAIN g
    /\ \A id \in DOMAIN f : f[id] = g[id]

\* The handler's outcome r is what the step did to the addressed sessions.
StepIs(r, ids) ==
    /\ r.response = response'
    /\ SameRegistry(r.sessions, Only(sessions', ids))

\* C16: a request addressed to one session leaves every other session's
\* candidates and history as they were, creates and removes no other session,
\* and its response and effect are those of the same request on a registry
\* holding the addressed session alone.
C16_SessionsIndependent ==
    [][LET ids == Addressed(response')
           alone == Only(sessions, ids)
           request == response'.request
       IN  /\ \A b \in (DOMAIN sessions \cup DOMAIN sessions') \ ids :
                 /\ b \in DOMAIN sessions
                 /\ b \in DOMAIN sessions'
                 /\ sessions'[b] = sessions[b]
           /\ response'.op = "guess" =>
                 \E w \in BOOLEAN : StepIs(submit_guess(alone, request, w), ids)
           /\ response'.op = "reset" => StepIs(reset_session(alone, request), ids)
           /\ response'.op = "delete" => StepIs(delete_session(alone, request), ids)
           /\ (response'.op = "init" /\ response'.status = 200) =>
                 \E scrape \in ScrapeOutcomes :
                     StepIs(initialize_solver(alone, request, response'.session_id,
                                              scrape, TRUE), ids)
      ]_vars

\* Two sessions side by side with different histories and candidates, the
\* last request a guess answered for one of them.
C16_Witness ==
    /\ DOMAIN sessions = SessionIds
    /\ response.op = "guess"
    /\ response.status = 200
    /\ Len(sessions[SessionId].history) = 2
    /\ Len(sessions[OtherId].history) = 1
    /\ sessions[SessionId].candidates # sessions[OtherId].candidates

-----------------------------------------------------------------------------
(* Two guess requests on one session, handled by two threads *)

\* The threads of the server's pool that run submit_guess.
Threads == {1, 2}

RaceRequests ==
    [session_id : {SessionId}, word : GuessWords, pattern : GuessPatterns,
     alpha : SessionAlphas, topk : SessionTopKs, restrict_guesses : {FALSE}]

\* One session on the full dictionary; each thread holds an accepted request
\* and is about to call solver.guess.
InitRace ==
    /\ sessions = [id \in {SessionId} |->
                      WordleSolver_init(FALSE, [ok |-> FALSE, past_answers |-> {}])]
    /\ created = [id \in {SessionId} |-> Dictionary]
    /\ before = << >>
    /\ response = [t \in Threads |-> << >>]
    /\ rreq \in [Threads -> RaceRequests]
    /\ rpc = [t \in Threads |-> "append"]
    /\ rlocal = [t \in Threads |-> << >>]
    /\ IdleCodec
    /\ IdleDispatch
    /\ IdleFunction

\* self.history.append((word, pattern))
RaceAppend(t) ==
    /\ rpc[t] = "append"
    /\ sessions' = [sessions EXCEPT ![SessionId].history =
                       Append(@, <<lower(rreq[t].word), rreq[t].pattern>>)]
    /\ rpc' = [rpc EXCEPT ![t] = "read"]
    /\ UNCHANGED <<created, before, response, rreq, rlocal,
                   codecVars, dispatchVars, functionVars>>

\* The argument self.candidates of filter_candidates is loaded.
RaceRead(t) ==
    /\ rpc[t] = "read"
    /\ rlocal' = [rlocal EXCEPT ![t] = sessions[SessionId].candidates]
    /\ rpc' = [rpc EXCEPT ![t] = "write"]
    /\ UNCHANGED <<solverVars, rreq, codecVars, dispatchVars, functionVars>>

\* self.candidates = filter_candidates(<the list loaded>, word, pattern)
RaceWrite(t) ==
    /\ rpc[t] = "write"
    /\ sessions' = [sessions EXCEPT ![SessionId].candidates =
                       filter_candidates(rlocal[t], lower(rreq[t].word),
                                         rreq[t].pattern)]
    /\ rpc' = [rpc EXCEPT ![t] = "respond"]
    /\ UNCHANGED <<created, before, response, rreq, rlocal,
                   codecVars, dispatchVars, functionVars>>

\* The rest of guess and of submit_guess: the suggestions and the response are
\* built from self.candidates as it is by then.
RaceRespond(t) ==
    /\ rpc[t] = "respond"
    /\ LET solver == sessions[SessionId]
           n == Len(solver.candidates)
           suggestions ==
               IF n = 0 THEN << >>
               ELSE IF n = 1 THEN solver.candidates
               ELSE suggest_guesses(solver.candidates, solver.all_words,
                                    rreq[t].alpha, rreq[t].topk,
                                    rreq[t].restrict_guesses, TRUE).suggestions
       IN  response' = [response EXCEPT ![t] =
                           [op |-> "guess", status |-> 200, request |-> rreq[t],
                            suggestions |-> suggestions,
                            candidates_remaining |-> n,
                            is_solved |-> n = 1]]
    /\ rpc' = [rpc EXCEPT ![t] = "done"]
    /\ UNCHANGED <<sessions, created, before, rreq, rlocal,
                   codecVars, dispatchVars, functionVars>>

NextRace ==
    \E t \in Threads :
        RaceAppend(t) \/ RaceRead(t) \/ RaceWrite(t) \/ RaceRespond(t)

SpecRace == InitRace /\ [][NextRace]_vars

BothDone == \A t \in Threads : rpc[t] = "done"

\* The candidates left by handling the two requests one after the other.
Sequential ==
    filter_candidates(
        filter_candidates(Dictionary, lower(rreq[1].word), rreq[1].pattern),
        lower(rreq[2].word), rreq[2].pattern)

\* C20: when both concurrent guesses have been handled, both records are in
\* the history and every candidate left is consistent with both: the
\* CandidateSet is the one the two guesses leave when handled in sequence.
C20_ConcurrentAsSequential ==
    BothDone =>
        /\ Len(History) = 2
        /\ \A t \in Threads :
              \E k \in 1..Len(History) :
                  History[k] = <<lower(rreq[t].word), rreq[t].pattern>>
        /\ \A w \in Range(Candidates) : is_consistent(w, History)
        /\ Candidates = Sequential

====
